---------------------------- MODULE Spec2Model ----------------------------
(***************************************************************************)
(* The matcher evaluation protocol of the expect crate: the matchers       *)
(* equal, contain, be_empty, be_none and be_some, the Collection adapters  *)
(* contain and be_empty dispatch to, and one assertion statement           *)
(* expect(&subject).to(matcher) / .not_to(matcher).                        *)
(*                                                                         *)
(* A behaviour is one test body: a caller-owned subject exists, a matcher  *)
(* is built by its factory, and then either its trait methods are called   *)
(* directly (as the unit tests do) or an Expectation is bound and consumed *)
(* by exactly one of to / not_to.                                          *)
(***************************************************************************)
EXTENDS Integers, Sequences, FiniteSets, TLC

VARIABLES
    subject,    \* the caller-owned value the assertion is about
    matcher,    \* the matcher value built by a factory (NoMatcher before)
    pc,         \* "test" | "expected" (Expectation bound) | "done"
    mode,       \* "none" | "to" | "not_to": which method consumed it
    outcome,    \* "none" | "returned" | "failed"
    message,    \* the text carried by the fatal assertion ("" otherwise)
    results,    \* what each direct call of match_value returned, in order
    messages    \* what each direct call of a message method returned

vars == <<subject, matcher, pc, mode, outcome, message, results, messages>>

---------------------------------------------------------------------------
(* Bounds of the model. *)

\* longest modelled container
MaxLen == 2
\* integers 1..MaxInt are the modelled i32 (and whole f64) values
MaxInt == 2
\* direct calls of match_value, and of the message methods, per test body
MaxCalls == 2

\* arrays implement Collection for the lengths 0..256 only
MaxArrayLen == 256

---------------------------------------------------------------------------
(* Values.  Every value is a record of one shape: its Rust type, its text  *)
(* (strings; "NaN" for the float that is not a number) and its number.     *)

IntV(n) == [t |-> "i32", s |-> "", n |-> n]
FloatV(n) == [t |-> "f64", s |-> "", n |-> n]
NaN == [t |-> "f64", s |-> "NaN", n |-> 0]
StrV(s) == [t |-> "str", s |-> s, n |-> 0]
StringV(s) == [t |-> "String", s |-> s, n |-> 0]

Texts == {"foo", "bar"}
Ints == {IntV(n) : n \in 1..MaxInt}
Floats == {FloatV(n) : n \in 1..MaxInt} \cup {NaN}
Strs == {StrV(s) : s \in Texts}
Strings == {StringV(s) : s \in Texts}
Values == Ints \cup Floats \cup Strs \cup Strings

IsNaN(v) == v.t = "f64" /\ v.s = "NaN"

\* A: PartialEq<E> exists: same type, or str against String
Comparable(a, e) ==
    \/ a.t = e.t
    \/ {a.t, e.t} = {"str", "String"}

\* a == e as the standard library's PartialEq decides it: i32 by number,
\* str and String by content, f64 by IEEE 754 (NaN equals nothing)
PartialEq_eq(a, e) ==
    IF a.t = "f64" /\ e.t = "f64"
    THEN ~IsNaN(a) /\ ~IsNaN(e) /\ a.n = e.n
    ELSE IF a.t \in {"str", "String"} /\ e.t \in {"str", "String"}
         THEN a.s = e.s
         ELSE a.t = e.t /\ a.n = e.n

\* a < e for i32, the Ord a BTreeSet keeps its elements by
Ord_lt(a, e) == a.n < e.n

---------------------------------------------------------------------------
(* Subjects: [kind, items].  A plain value holds one item, an Option none  *)
(* (None) or one (Some), a container its elements in iteration order.      *)

SeqKinds == {"Array", "Vec", "VecDeque", "LinkedList"}
SetKinds == {"HashSet", "BTreeSet"}
CollectionKinds == SeqKinds \cup SetKinds

SeqsUpTo(S, n) == UNION {[1..k -> S] : k \in 0..n}

NoDuplicates(items) ==
    \A i, j \in 1..Len(items) : i # j => ~PartialEq_eq(items[i], items[j])

Sorted(items) ==
    \A i, j \in 1..Len(items) : i < j => Ord_lt(items[i], items[j])

Plain(v) == [kind |-> "value", items |-> <<v>>]
None == [kind |-> "Option", items |-> <<>>]
Some(v) == [kind |-> "Option", items |-> <<v>>]

\* the element types of the modelled sequences: i32, f64, &str
ElemTypes == {Ints, Floats, Strs}

PlainSubjects == {Plain(v) : v \in Values}
OptionSubjects == {None} \cup {Some(v) : v \in Ints \cup Strs \cup Strings}
SeqSubjects ==
    {[kind |-> k, items |-> s] :
        k \in SeqKinds, s \in UNION {SeqsUpTo(T, MaxLen) : T \in ElemTypes}}
\* a HashSet iterates in an order of its own and holds no element twice
HashSetSubjects ==
    {[kind |-> "HashSet", items |-> s] :
        s \in {q \in SeqsUpTo(Ints, MaxLen) : NoDuplicates(q)}}
\* a BTreeSet iterates in ascending order
BTreeSetSubjects ==
    {[kind |-> "BTreeSet", items |-> s] :
        s \in {q \in SeqsUpTo(Ints, MaxLen) : Sorted(q)}}
CollectionSubjects == SeqSubjects \cup HashSetSubjects \cup BTreeSetSubjects
Subjects == PlainSubjects \cup OptionSubjects \cup CollectionSubjects

IsOption(a) == a.kind = "Option"
\* V: Collection<T>: one of the adapters exists for V
IsCollection(a) ==
    /\ a.kind \in CollectionKinds
    /\ a.kind = "Array" => Len(a.items) <= MaxArrayLen

\* T of a container is the type of the element e
ElementTyped(a, e) == \A i \in 1..Len(a.items) : a.items[i].t = e.t

---------------------------------------------------------------------------
(* Debug renderings ({:?}). *)

DebugValue(v) ==
    CASE v.t = "i32" -> ToString(v.n)
      [] v.t = "f64" -> IF IsNaN(v) THEN "NaN" ELSE ToString(v.n) \o ".0"
      [] OTHER -> "\"" \o v.s \o "\""

RECURSIVE DebugList(_)
DebugList(items) ==
    IF Len(items) = 0 THEN ""
    ELSE IF Len(items) = 1 THEN DebugValue(items[1])
    ELSE DebugValue(items[1]) \o ", " \o DebugList(Tail(items))

Debug(a) ==
    CASE a.kind = "value" -> DebugValue(a.items[1])
      [] a.kind = "Option" ->
            IF Len(a.items) = 0 THEN "None"
            ELSE "Some(" \o DebugValue(a.items[1]) \o ")"
      [] a.kind \in SeqKinds -> "[" \o DebugList(a.items) \o "]"
      [] OTHER -> "{" \o DebugList(a.items) \o "}"

---------------------------------------------------------------------------
(* The factories. *)

NoMatcher == [kind |-> "none", data |-> <<>>]
equal(expected) == [kind |-> "equal", data |-> <<expected>>]
contain(element) == [kind |-> "contain", data |-> <<element>>]
be_empty == [kind |-> "be_empty", data |-> <<>>]
be_none == [kind |-> "be_none", data |-> <<>>]
be_some == [kind |-> "be_some", data |-> <<>>]

---------------------------------------------------------------------------
(* The Collection adapters, one per container kind. *)

\* [T]::contains: a linear scan with ==
RECURSIVE slice_contains(_, _)
slice_contains(items, x) ==
    IF Len(items) = 0 THEN FALSE
    ELSE IF PartialEq_eq(items[1], x) THEN TRUE
    ELSE slice_contains(Tail(items), x)

\* HashSet::contains: the elements of x's bucket, compared with ==
Hash(v) == v.n % 2
HashSet_contains(items, x) ==
    \E i \in 1..Len(items) :
        Hash(items[i]) = Hash(x) /\ PartialEq_eq(items[i], x)

\* BTreeSet::contains: a search in ascending order that stops at the first
\* element greater than x
RECURSIVE BTreeSet_contains(_, _)
BTreeSet_contains(items, x) ==
    IF Len(items) = 0 THEN FALSE
    ELSE IF Ord_lt(x, items[1]) THEN FALSE
    ELSE IF Ord_lt(items[1], x) THEN BTreeSet_contains(Tail(items), x)
    ELSE TRUE

Array_contains_element(c, element) == slice_contains(c.items, element)
Array_empty(c) == Len(c.items) = 0

\* faulty variant: the scan stops one element short
Vec_contains_element_short(c, element) ==
    slice_contains(SubSeq(c.items, 1, Len(c.items) - 1), element)

Vec_contains_element(c, element) == slice_contains(c.items, element)
\* faulty variant: len() <= 1 for len() == 0
Vec_empty_off_by_one(c) == Len(c.items) <= 1

Vec_empty(c) == Len(c.items) = 0

VecDeque_contains_element(c, element) == slice_contains(c.items, element)
VecDeque_empty(c) == Len(c.items) = 0

LinkedList_contains_element(c, element) == slice_contains(c.items, element)
LinkedList_empty(c) == Len(c.items) = 0

HashSet_contains_element(c, element) == HashSet_contains(c.items, element)
HashSet_empty(c) == Len(c.items) = 0

BTreeSet_contains_element(c, element) == BTreeSet_contains(c.items, element)
BTreeSet_empty(c) == Len(c.items) = 0

\* Collection::contains_element, resolved by the container's type
contains_element(c, element) ==
    CASE c.kind = "Array" -> Array_contains_element(c, element)
      [] c.kind = "Vec" -> Vec_contains_element(c, element)
      [] c.kind = "VecDeque" -> VecDeque_contains_element(c, element)
      [] c.kind = "LinkedList" -> LinkedList_contains_element(c, element)
      [] c.kind = "HashSet" -> HashSet_contains_element(c, element)
      [] OTHER -> BTreeSet_contains_element(c, element)

\* Collection::empty, resolved by the container's type
empty(c) ==
    CASE c.kind = "Array" -> Array_empty(c)
      [] c.kind = "Vec" -> Vec_empty(c)
      [] c.kind = "VecDeque" -> VecDeque_empty(c)
      [] c.kind = "LinkedList" -> LinkedList_empty(c)
      [] c.kind = "HashSet" -> HashSet_empty(c)
      [] OTHER -> BTreeSet_empty(c)

---------------------------------------------------------------------------
(* The matchers' trait methods. *)

\* faulty variant: compares the two representations instead of using ==
EqualMatcher_match_value_identity(m, actual) ==
    actual.items[1] = m.data[1]

EqualMatcher_match_value(m, actual) ==
    PartialEq_eq(actual.items[1], m.data[1])

EqualMatcher_failure_message(m, actual) ==
    "\tExpected:\n\t\t" \o Debug(actual) \o "\n\tto equal:\n\t\t"
        \o DebugValue(m.data[1])

EqualMatcher_negated_failure_message(m, actual) ==
    "\tExpected:\n\t\t" \o Debug(actual) \o "\n\tnot to equal:\n\t\t"
        \o DebugValue(m.data[1])

ContainMatcher_match_value(m, collection) ==
    contains_element(collection, m.data[1])

ContainMatcher_failure_message(m, collection) ==
    "\tExpected:\n\t\t" \o Debug(collection) \o "\n\tto contain:\n\t\t"
        \o DebugValue(m.data[1])

\* faulty variant: the text of failure_message, copied without "not"
ContainMatcher_negated_failure_message_copied(m, collection) ==
    "\tExpected:\n\t\t" \o Debug(collection) \o "\n\tto contain:\n\t\t"
        \o DebugValue(m.data[1])

ContainMatcher_negated_failure_message(m, collection) ==
    "\tExpected:\n\t\t" \o Debug(collection) \o "\n\tnot to contain:\n\t\t"
        \o DebugValue(m.data[1])

BeEmptyMatcher_match_value(m, collection) == empty(collection)

BeEmptyMatcher_failure_message(m, collection) ==
    "\tExpected:\n\t\t" \o Debug(collection) \o "\n\tto be empty"

BeEmptyMatcher_negated_failure_message(m, collection) ==
    "\tExpected:\n\t\t" \o Debug(collection) \o "\n\tnot to be empty"

\* faulty variant: is_some() for is_none()
NoneMatcher_match_value_is_some(m, actual) == Len(actual.items) # 0

NoneMatcher_match_value(m, actual) == Len(actual.items) = 0

NoneMatcher_failure_message(m, actual) ==
    "\tExpected:\n\t\t" \o Debug(actual) \o "\n\tto be None"

NoneMatcher_negated_failure_message(m, actual) ==
    "\tExpected:\n\t\t" \o Debug(actual) \o "\n\tnot to be None"

\* the two cases of Match, each carrying its message
Matched(msg) == [tag |-> "Matched", msg |-> msg]
NotMatched(msg) == [tag |-> "NotMatched", msg |-> msg]

\* faulty variant: the two messages are attached to the wrong tags
SomeMatcher_match_value_swapped(m, actual) ==
    IF Len(actual.items) # 0
    THEN Matched("expected None to be a Some")
    ELSE NotMatched("expected " \o Debug(actual) \o " not to be a Some")

\* faulty variant: the Matched message does not render the subject
SomeMatcher_match_value_fixed_text(m, actual) ==
    IF Len(actual.items) # 0
    THEN Matched("expected Some not to be a Some")
    ELSE NotMatched("expected None to be a Some")

SomeMatcher_match_value(m, actual) ==
    IF Len(actual.items) # 0
    THEN Matched("expected " \o Debug(actual) \o " not to be a Some")
    ELSE NotMatched("expected None to be a Some")

\* the two dialects of the Matcher trait: A returns a bool and has the two
\* message methods, B returns a Match
Dialect(m) == IF m.kind = "be_some" THEN "B" ELSE "A"

\* Matcher::match_value, resolved by the matcher's type
match_value(m, actual) ==
    CASE m.kind = "equal" -> EqualMatcher_match_value(m, actual)
      [] m.kind = "contain" -> ContainMatcher_match_value(m, actual)
      [] m.kind = "be_empty" -> BeEmptyMatcher_match_value(m, actual)
      [] m.kind = "be_none" -> NoneMatcher_match_value(m, actual)
      [] OTHER -> SomeMatcher_match_value(m, actual)

\* Matcher::failure_message (dialect A)
failure_message(m, actual) ==
    CASE m.kind = "equal" -> EqualMatcher_failure_message(m, actual)
      [] m.kind = "contain" -> ContainMatcher_failure_message(m, actual)
      [] m.kind = "be_empty" -> BeEmptyMatcher_failure_message(m, actual)
      [] OTHER -> NoneMatcher_failure_message(m, actual)

\* Matcher::negated_failure_message (dialect A)
negated_failure_message(m, actual) ==
    CASE m.kind = "equal" -> EqualMatcher_negated_failure_message(m, actual)
      [] m.kind = "contain" -> ContainMatcher_negated_failure_message(m, actual)
      [] m.kind = "be_empty" -> BeEmptyMatcher_negated_failure_message(m, actual)
      [] OTHER -> NoneMatcher_negated_failure_message(m, actual)

\* the trait bounds: which subjects a matcher compiles against
Applies(m, actual) ==
    CASE m.kind = "equal" ->
            actual.kind = "value" /\ Comparable(actual.items[1], m.data[1])
      [] m.kind = "contain" ->
            /\ IsCollection(actual)
            /\ ElementTyped(actual, m.data[1])
            /\ actual.kind \in SetKinds => m.data[1].t = "i32"
      [] m.kind = "be_empty" -> IsCollection(actual)
      [] m.kind \in {"be_none", "be_some"} -> IsOption(actual)
      [] OTHER -> FALSE

---------------------------------------------------------------------------
(* The evaluator: expect, to, not_to. *)

Returned == [outcome |-> "returned", message |-> ""]
Failed(msg) == [outcome |-> "failed", message |-> msg]

\* faulty variant: a dialect-B failure is dropped
ToResult_swallowing(m, actual) ==
    IF Dialect(m) = "A"
    THEN IF match_value(m, actual)
         THEN Returned
         ELSE Failed(failure_message(m, actual))
    ELSE Returned

\* Expectation::to
ToResult(m, actual) ==
    IF Dialect(m) = "A"
    THEN IF match_value(m, actual)
         THEN Returned
         ELSE Failed(failure_message(m, actual))
    ELSE LET r == match_value(m, actual)
         IN  IF r.tag = "NotMatched" THEN Failed(r.msg) ELSE Returned

\* faulty variant: not_to fails on the same tag as to
NotToResult_same_tag(m, actual) ==
    IF Dialect(m) = "A"
    THEN IF match_value(m, actual)
         THEN Failed(negated_failure_message(m, actual))
         ELSE Returned
    ELSE LET r == match_value(m, actual)
         IN  IF r.tag = "NotMatched" THEN Failed(r.msg) ELSE Returned

\* Expectation::not_to
NotToResult(m, actual) ==
    IF Dialect(m) = "A"
    THEN IF match_value(m, actual)
         THEN Failed(negated_failure_message(m, actual))
         ELSE Returned
    ELSE LET r == match_value(m, actual)
         IN  IF r.tag = "Matched" THEN Failed(r.msg) ELSE Returned

---------------------------------------------------------------------------
(* The steps of a test body. *)

Built == matcher.kind # "none"

\* the factory call compiles here: no matcher yet, and m's bounds hold
CanBuild(m) ==
    /\ ~Built
    /\ pc \in {"test", "expected"}
    /\ Applies(m, subject)

\* equal(expected)
CallEqual ==
    \E expected \in Values :
        /\ CanBuild(equal(expected))
        /\ matcher' = equal(expected)
        /\ UNCHANGED <<subject, pc, mode, outcome, message, results, messages>>

\* contain(element)
CallContain ==
    \E element \in Ints \cup Floats \cup Strs :
        /\ CanBuild(contain(element))
        /\ matcher' = contain(element)
        /\ UNCHANGED <<subject, pc, mode, outcome, message, results, messages>>

\* be_empty()
CallBeEmpty ==
    /\ CanBuild(be_empty)
    /\ matcher' = be_empty
    /\ UNCHANGED <<subject, pc, mode, outcome, message, results, messages>>

\* be_none()
CallBeNone ==
    /\ CanBuild(be_none)
    /\ matcher' = be_none
    /\ UNCHANGED <<subject, pc, mode, outcome, message, results, messages>>

\* be_some()
CallBeSome ==
    /\ CanBuild(be_some)
    /\ matcher' = be_some
    /\ UNCHANGED <<subject, pc, mode, outcome, message, results, messages>>

\* faulty variant: the call takes the first element out of the subject it
\* looked at (a container or an Option)
CallMatchValue_consuming ==
    /\ Built
    /\ pc = "test"
    /\ Len(results) < MaxCalls
    /\ results' = Append(results, match_value(matcher, subject))
    /\ subject' = IF subject.kind # "value" /\ Len(subject.items) > 0
                  THEN [subject EXCEPT !.items = Tail(subject.items)]
                  ELSE subject
    /\ UNCHANGED <<matcher, pc, mode, outcome, message, messages>>

\* matcher.match_value(&subject), called directly
CallMatchValue ==
    /\ Built
    /\ pc = "test"
    /\ Len(results) < MaxCalls
    /\ results' = Append(results, match_value(matcher, subject))
    /\ UNCHANGED <<subject, matcher, pc, mode, outcome, message, messages>>

\* matcher.failure_message(&subject), called directly
CallFailureMessage ==
    /\ Built
    /\ Dialect(matcher) = "A"
    /\ pc = "test"
    /\ Len(messages) < MaxCalls
    /\ messages' = Append(messages,
            [fn |-> "failure_message",
             text |-> failure_message(matcher, subject)])
    /\ UNCHANGED <<subject, matcher, pc, mode, outcome, message, results>>

\* matcher.negated_failure_message(&subject), called directly
CallNegatedFailureMessage ==
    /\ Built
    /\ Dialect(matcher) = "A"
    /\ pc = "test"
    /\ Len(messages) < MaxCalls
    /\ messages' = Append(messages,
            [fn |-> "negated_failure_message",
             text |-> negated_failure_message(matcher, subject)])
    /\ UNCHANGED <<subject, matcher, pc, mode, outcome, message, results>>

\* expect(&subject).  A test body either calls the trait methods directly
\* or states an assertion, as every test of the crate does.
Expect ==
    /\ pc = "test"
    /\ results = <<>>
    /\ messages = <<>>
    /\ pc' = "expected"
    /\ UNCHANGED <<subject, matcher, mode, outcome, message, results, messages>>

\* expect(&subject).to(matcher)
To ==
    /\ pc = "expected"
    /\ Built
    /\ pc' = "done"
    /\ mode' = "to"
    /\ outcome' = ToResult(matcher, subject).outcome
    /\ message' = ToResult(matcher, subject).message
    /\ UNCHANGED <<subject, matcher, results, messages>>

\* expect(&subject).not_to(matcher)
NotTo ==
    /\ pc = "expected"
    /\ Built
    /\ pc' = "done"
    /\ mode' = "not_to"
    /\ outcome' = NotToResult(matcher, subject).outcome
    /\ message' = NotToResult(matcher, subject).message
    /\ UNCHANGED <<subject, matcher, results, messages>>

Init ==
    /\ subject \in Subjects
    /\ matcher = NoMatcher
    /\ pc = "test"
    /\ mode = "none"
    /\ outcome = "none"
    /\ message = ""
    /\ results = <<>>
    /\ messages = <<>>

Next ==
    \/ CallEqual
    \/ CallContain
    \/ CallBeEmpty
    \/ CallBeNone
    \/ CallBeSome
    \/ CallMatchValue
    \/ CallFailureMessage
    \/ CallNegatedFailureMessage
    \/ Expect
    \/ To
    \/ NotTo

Spec == Init /\ [][Next]_vars

---------------------------------------------------------------------------
(* Properties. *)

Range(q) == {q[i] : i \in 1..Len(q)}

\* the sentence of the documented template:
\* "\tExpected:\n\t\t<actual>\n\t<to|not to> <verb-phrase>:\n\t\t<expected>"
Template(actual, to, verb, expected) ==
    "\tExpected:\n\t\t" \o actual \o "\n\t" \o to \o " " \o verb
        \o ":\n\t\t" \o expected

\* the same without the expected part
ShortTemplate(actual, to, verb) ==
    "\tExpected:\n\t\t" \o actual \o "\n\t" \o to \o " " \o verb

ToWord(fn) == IF fn = "failure_message" THEN "to" ELSE "not to"

VerbPhrase(m) ==
    CASE m.kind = "equal" -> "equal"
      [] m.kind = "contain" -> "contain"
      [] m.kind = "be_empty" -> "be empty"
      [] OTHER -> "be None"

\* C1: the complement law.  Whichever of to / not_to consumed the
\* Expectation, it failed exactly when the other one would have returned,
\* and of the two exactly one fails, for every matcher of either dialect.
C1_ComplementLaw ==
    Built =>
        /\ (ToResult(matcher, subject).outcome = "failed")
                # (NotToResult(matcher, subject).outcome = "failed")
        /\ (pc = "done" /\ mode = "to") =>
                (outcome = "failed"
                    <=> NotToResult(matcher, subject).outcome = "returned")
        /\ (pc = "done" /\ mode = "not_to") =>
                (outcome = "failed"
                    <=> ToResult(matcher, subject).outcome = "returned")

C1_Witness ==
    /\ pc = "done"
    /\ mode = "not_to"
    /\ matcher.kind = "be_some"
    /\ outcome = "failed"

\* C2: to neither swallows a failure nor fails spuriously.  After to, the
\* call has either returned (no message) or failed; for a dialect-A matcher
\* it failed with failure_message(actual) exactly when match_value is false,
\* for a dialect-B matcher with the NotMatched message exactly when the
\* outcome is NotMatched.
C2_ToReportsEveryFailure ==
    (pc = "done" /\ mode = "to") =>
        /\ outcome \in {"returned", "failed"}
        /\ outcome = "returned" => message = ""
        /\ Dialect(matcher) = "A" =>
            /\ outcome = "failed" <=> ~match_value(matcher, subject)
            /\ outcome = "failed" =>
                    message = failure_message(matcher, subject)
        /\ Dialect(matcher) = "B" =>
            /\ outcome = "failed"
                    <=> match_value(matcher, subject).tag = "NotMatched"
            /\ outcome = "failed" =>
                    message = match_value(matcher, subject).msg

C2_Witness ==
    /\ pc = "done"
    /\ mode = "to"
    /\ matcher.kind = "be_none"
    /\ outcome = "failed"
    /\ message = "\tExpected:\n\t\tSome(\"foo\")\n\tto be None"

\* the same content: the same text and the same number (a str and a String
\* of one content count as the same)
SameContent(a, e) == a.s = e.s /\ a.n = e.n

\* C3 as stated: equal(e) holds for a exactly when a == e, and equal(a)
\* holds for every subject a itself.
C3_Original ==
    matcher.kind = "equal" =>
        LET a == subject.items[1]
            e == matcher.data[1]
        IN  \A i \in DOMAIN results :
                /\ results[i] <=> PartialEq_eq(a, e)
                /\ e = a => results[i]

\* C3 as amended: equal(e) holds for a exactly when a and e have the same
\* content and neither is the float NaN; so equal(a) holds for a itself
\* exactly when a is not NaN.  Every direct call returned that.
C3_EqualIffEq ==
    matcher.kind = "equal" =>
        LET a == subject.items[1]
            e == matcher.data[1]
            truth == SameContent(a, e) /\ ~IsNaN(a) /\ ~IsNaN(e)
        IN  /\ match_value(matcher, subject) <=> truth
            /\ e = a => (match_value(matcher, subject) <=> ~IsNaN(a))
            /\ \A i \in DOMAIN results : results[i] <=> truth

C3_Witness ==
    /\ matcher.kind = "equal"
    /\ subject = Plain(StringV("foo"))
    /\ matcher.data[1] = StrV("foo")
    /\ Len(results) > 0
    /\ results[1] = TRUE

\* c2 is a container the program can build that holds the same elements
\* as c
SameElements(c2, c) ==
    /\ Range(c2.items) = Range(c.items)
    /\ c2.kind \in SetKinds =>
            \A i \in 1..Len(c2.items) : c2.items[i].t = "i32"
    /\ c2.kind = "HashSet" => NoDuplicates(c2.items)
    /\ c2.kind = "BTreeSet" => Sorted(c2.items)

\* contain(e) gives b for every container, of any kind, that holds the
\* same elements as c
AllKindsGive(m, c, b) ==
    \A k \in CollectionKinds : \A n \in 0..MaxLen :
        \A q \in [1..n -> Range(c.items)] :
            LET c2 == [kind |-> k, items |-> q]
            IN  (SameElements(c2, c) /\ Applies(m, c2))
                    => (match_value(m, c2) <=> b)

\* C4 as stated: contain(e) holds for c exactly when e is one of c's
\* elements, whatever the kind of c.
C4_Original ==
    matcher.kind = "contain" =>
        LET e == matcher.data[1]
        IN  \A i \in DOMAIN results :
                /\ results[i] <=> e \in Range(subject.items)
                /\ AllKindsGive(matcher, subject, results[i])

\* C4 as amended: contain(e) holds for c exactly when some element of c
\* compares equal to e, that is when e is one of c's elements and e is not
\* the float NaN; containers of different kinds holding the same elements
\* agree for every e.  Every direct call returned that.
C4_ContainIffSomeElementEq ==
    matcher.kind = "contain" =>
        LET e == matcher.data[1]
            truth == e \in Range(subject.items) /\ ~IsNaN(e)
        IN  /\ match_value(matcher, subject) <=> truth
            /\ AllKindsGive(matcher, subject, truth)
            /\ \A i \in DOMAIN results : results[i] <=> truth

C4_Witness ==
    /\ matcher.kind = "contain"
    /\ subject.kind = "Vec"
    /\ Len(subject.items) = MaxLen
    /\ matcher.data[1] = subject.items[MaxLen]
    /\ SameElements([kind |-> "BTreeSet", items |-> <<IntV(1), IntV(2)>>],
                    subject)
    /\ Len(results) > 0
    /\ results[1] = TRUE

\* C5: be_empty() holds for c exactly when c has no element, and then
\* contain(e) holds for no element e.  Every direct call returned that.
C5_EmptyIffNoElements ==
    matcher.kind = "be_empty" =>
        /\ match_value(matcher, subject) <=> Len(subject.items) = 0
        /\ match_value(matcher, subject) =>
                \A e \in Ints \cup Floats \cup Strs :
                    Applies(contain(e), subject) =>
                        ~match_value(contain(e), subject)
        /\ \A i \in DOMAIN results :
                results[i] <=> Cardinality(Range(subject.items)) = 0

C5_Witness ==
    /\ matcher.kind = "be_empty"
    /\ subject.kind = "Vec"
    /\ Len(subject.items) = 1
    /\ Len(results) > 0
    /\ results[1] = FALSE

\* C6: for an Option subject, be_some() is Matched exactly when it is a
\* Some, be_none() is true exactly when it is None, and exactly one of the
\* two holds.  Every direct call returned that.
C6_SomeXorNone ==
    (Built /\ IsOption(subject)) =>
        LET some == match_value(be_some, subject).tag = "Matched"
            none == match_value(be_none, subject)
        IN  /\ some <=> Len(subject.items) = 1
            /\ none <=> Len(subject.items) = 0
            /\ some # none
            /\ matcher.kind = "be_some" =>
                    \A i \in DOMAIN results :
                        results[i].tag = "Matched" <=> subject # None
            /\ matcher.kind = "be_none" =>
                    \A i \in DOMAIN results : results[i] <=> subject = None

C6_Witness ==
    /\ matcher.kind = "be_none"
    /\ subject = Some(IntV(1))
    /\ Len(results) > 0
    /\ results[1] = FALSE

\* what a text may show as <expected>: a rendering of a value, or nothing
Renderings == {DebugValue(v) : v \in Values} \cup {"", "()", "PhantomData"}

\* C7 as stated: every message of every dialect-A matcher is the template
\* with the matcher's verb phrase, the subject's rendering as <actual> and
\* a rendering of the expected data as <expected>.
C7_Original ==
    (Built /\ Dialect(matcher) = "A") =>
        \A i \in DOMAIN messages :
            \E x \in Renderings :
                /\ matcher.data # <<>> => x = DebugValue(matcher.data[1])
                /\ messages[i].text =
                        Template(Debug(subject), ToWord(messages[i].fn),
                                 VerbPhrase(matcher), x)

\* C7 as amended: the messages of equal and contain are the template; those
\* of be_empty and be_none, which capture no expected data, end after the
\* verb phrase, with no colon and no <expected> line.
C7_MessagesFollowTemplate ==
    (Built /\ Dialect(matcher) = "A") =>
        \A i \in DOMAIN messages :
            IF matcher.kind \in {"equal", "contain"}
            THEN messages[i].text =
                    Template(Debug(subject), ToWord(messages[i].fn),
                             VerbPhrase(matcher), DebugValue(matcher.data[1]))
            ELSE messages[i].text =
                    ShortTemplate(Debug(subject), ToWord(messages[i].fn),
                                  VerbPhrase(matcher))

C7_Witness ==
    /\ matcher = contain(StrV("foo"))
    /\ subject = [kind |-> "Vec", items |-> <<StrV("foo")>>]
    /\ Len(messages) = 2
    /\ messages[1] = [fn |-> "failure_message",
            text |-> "\tExpected:\n\t\t[\"foo\"]\n\tto contain:\n\t\t\"foo\""]
    /\ messages[2] = [fn |-> "negated_failure_message",
            text |-> "\tExpected:\n\t\t[\"foo\"]\n\tnot to contain:\n\t\t\"foo\""]

\* all the direct calls of one method returned the same
CallsAgree ==
    /\ \A i, j \in DOMAIN results : results[i] = results[j]
    /\ \A i, j \in DOMAIN messages :
            messages[i].fn = messages[j].fn =>
                messages[i].text = messages[j].text

C9_TagAndMessageAgree ==
    matcher.kind = "be_some" =>
        LET r == IF subject = None
                 THEN NotMatched("expected None to be a Some")
                 ELSE Matched("expected Some("
                        \o DebugValue(subject.items[1])
                        \o ") not to be a Some")
        IN  /\ match_value(matcher, subject) = r
            /\ \A i \in DOMAIN results : results[i] = r
            /\ (pc = "done" /\ mode = "not_to" /\ subject # None) =>
                    (outcome = "failed" /\ message = r.msg)
            /\ (pc = "done" /\ mode = "to" /\ subject = None) =>
                    (outcome = "failed" /\ message = r.msg)

C9_Witness ==
    /\ matcher.kind = "be_some"
    /\ subject = Some(StrV("foo"))
    /\ pc = "done"
    /\ mode = "not_to"
    /\ outcome = "failed"
    /\ message = "expected Some(\"foo\") not to be a Some"

\* C10 as stated: for the matcher be_some(), all the subjects that yield
\* the same tag yield the same message.
C10_Original ==
    matcher.kind = "be_some" =>
        \A i \in DOMAIN results :
            \A b \in OptionSubjects :
                match_value(matcher, b).tag = results[i].tag
                    => match_value(matcher, b).msg = results[i].msg

\* C10 as amended: only the NotMatched message is a fixed text.  The
\* Matched message is built from the subject when the matcher is evaluated:
\* two subjects that yield Matched carry the same message exactly when they
\* render the same.  The text to or not_to fails with is the message the
\* outcome carries.
C10_MessageFollowsSubject ==
    matcher.kind = "be_some" =>
        LET r == match_value(matcher, subject)
        IN  /\ \A b \in OptionSubjects :
                LET rb == match_value(matcher, b)
                IN  /\ (rb.tag = "NotMatched" /\ r.tag = "NotMatched")
                            => rb.msg = r.msg
                    /\ (rb.tag = "Matched" /\ r.tag = "Matched")
                            => (rb.msg = r.msg <=> Debug(b) = Debug(subject))
            /\ (pc = "done" /\ outcome = "failed") => message = r.msg

C10_Witness ==
    /\ matcher.kind = "be_some"
    /\ subject = Some(IntV(2))
    /\ pc = "done"
    /\ mode = "not_to"
    /\ outcome = "failed"
    /\ message = match_value(matcher, Some(IntV(2))).msg
    /\ message # match_value(matcher, Some(IntV(1))).msg

=============================================================================
